---- MODULE Spec2Model ----
(***************************************************************************)
(* A model of codewiki's file lifecycle classifier                         *)
(* (src/codewiki/lifecycle_classifier.py): the rule engine, the clear-case *)
(* filter, the JSON extractor, the LLM adapter and classify().             *)
(*                                                                         *)
(* Conventions                                                             *)
(*  - a confidence is an integer number of hundredths (0.6 is 60);         *)
(*  - an age is a whole number of days;                                    *)
(*  - a path is a sequence of chunks of text; a pattern of the source is   *)
(*    one chunk, so "pattern in path" is "some chunk is the pattern",      *)
(*    startswith looks at the first chunk and endswith at the last;        *)
(*  - a JSON value is a tagged record (JNull, JNum, JStr, JList, JObj);    *)
(*  - a generator text is a sequence of tokens (white space, prose, stray  *)
(*    braces, code fences, serialized JSON values).                        *)
(*                                                                         *)
(* Specifications                                                          *)
(*  - Spec: classify() called up to MaxRuns times on one classifier, over  *)
(*    indexes of up to MaxFiles files, the generator answering with any of *)
(*    GeneratorResponses;                                                  *)
(*  - SpecOutcomes: the same with a generator that answers only with       *)
(*    OutcomeResponses;                                                    *)
(*  - SpecAdapter: runs over one file with every shape of answer of        *)
(*    AdapterResponses;                                                    *)
(*  - SpecKept: runs with three generator answers, the caller keeping the   *)
(*    result of an earlier call;                                           *)
(*  - SpecFailing: full-mode and rule-based runs, every generator call      *)
(*    failing;                                                             *)
(*  - SpecSaved: the runs of SpecOutcomes, each result saved or not;        *)
(*  - SpecFilter: hybrid and rule-based runs over one file, the path and   *)
(*    the age varied around the clear-case filter's rules;                 *)
(*  - SpecRules: rule-based runs over one file, the path, the age and      *)
(*    deprecation_days varied;                                             *)
(*  - SpecExtractor: full-mode runs over one file, the generator           *)
(*    answering with every short text of ExtractorTexts;                   *)
(*  - SpecClient: a LocalLLMClient built over every list of up to          *)
(*    MaxProviders providers and then called.                              *)
(***************************************************************************)
EXTENDS Integers, Sequences, FiniteSets, TLC

(***************************************************************************)
(* Bounds of the model.                                                    *)
(***************************************************************************)
\* The longest repository index (number of file entries).
MaxFiles == 2
\* The largest number of classify() calls made on one classifier.
MaxRuns == 2

(***************************************************************************)
(* Program constants.                                                      *)
(***************************************************************************)
\* deprecation_days: int = 90
DefaultDeprecationDays == 90
\* confidence=0.9 of a clear case, in hundredths
ClearCaseConfidence == 90
\* "if confidence < 0.6 and rec_label in {archive, delete}", in hundredths
SafetyGateConfidence == 60
\* parsed.get("confidence", 0.7), in hundredths
DefaultLLMConfidence == 70
\* age_days < 30 of the clear keep rule
ClearKeepMaxAge == 30
\* age_days > 365 of the clear review rule
ClearReviewMinAge == 365

LifecycleDecision == {"keep", "archive", "delete", "review"}

(***************************************************************************)
(* JSON values, as json.loads builds them.                                 *)
(***************************************************************************)
JNull == [t |-> "null"]
JBool(b) == [t |-> "bool", b |-> b]
\* a finite number, in hundredths
JNum(n) == [t |-> "num", n |-> n]
\* json.loads accepts the literal NaN
JNaN == [t |-> "nan"]
JStr(s) == [t |-> "str", s |-> s]
JList(items) == [t |-> "list", items |-> items]
\* fields: a function from keys to JSON values
JObj(fields) == [t |-> "obj", fields |-> fields]
NoFields == [k \in {} |-> JNull]

\* Python truthiness: bool(v)
Truthy(v) ==
    CASE v.t = "null" -> FALSE
      [] v.t = "bool" -> v.b
      [] v.t = "num"  -> v.n # 0
      [] v.t = "nan"  -> TRUE
      [] v.t = "str"  -> v.s # ""
      [] v.t = "list" -> v.items # <<>>
      [] v.t = "obj"  -> DOMAIN v.fields # {}

\* dict.get(key, default)
DictGet(obj, key, default) ==
    IF key \in DOMAIN obj.fields THEN obj.fields[key] ELSE default

\* "a or b"
PyOr(a, b) == IF Truthy(a) THEN a ELSE b

\* The strings float() parses, with their value in hundredths; "nan" is NaN.
NumericStrings == {"0.4", "0.95", "1.5", "-0.5", "nan"}
StrToFloat(s) ==
    CASE s = "0.4"  -> JNum(40)
      [] s = "0.95" -> JNum(95)
      [] s = "1.5"  -> JNum(150)
      [] s = "-0.5" -> JNum(0 - 50)
      [] s = "nan"  -> JNaN

\* float(v): [ok |-> TRUE, v |-> a number or NaN], or ok = FALSE when float()
\* raises (TypeError for None, a list, an object; ValueError for other text).
PyFloat(v) ==
    CASE v.t = "num"  -> [ok |-> TRUE, v |-> v]
      [] v.t = "nan"  -> [ok |-> TRUE, v |-> v]
      [] v.t = "bool" -> [ok |-> TRUE, v |-> JNum(IF v.b THEN 100 ELSE 0)]
      [] v.t = "str"  -> IF v.s \in NumericStrings
                         THEN [ok |-> TRUE, v |-> StrToFloat(v.s)]
                         ELSE [ok |-> FALSE, v |-> JNull]
      [] OTHER        -> [ok |-> FALSE, v |-> JNull]

\* The value with no clamp applied.
Unclamped(x) == IF x.t = "nan" THEN 100 ELSE x.n

\* max(0.0, min(1.0, x)): min(1.0, nan) is 1.0, as nan < 1.0 is False.
Clamp01(x) ==
    IF x.t = "nan" THEN 100
    ELSE IF x.n > 100 THEN 100
    ELSE IF x.n < 0 THEN 0
    ELSE x.n

\* str(v), kept abstract for values that are no string
PyStr(v) ==
    CASE v.t = "str"  -> v.s
      [] v.t = "num"  -> "<number>"
      [] v.t = "nan"  -> "nan"
      [] v.t = "bool" -> IF v.b THEN "True" ELSE "False"
      [] v.t = "list" -> "<list>"
      [] v.t = "obj"  -> "<dict>"
      [] OTHER        -> "None"

(***************************************************************************)
(* Paths and the path patterns.                                            *)
(***************************************************************************)
\* str.lower() of one chunk; the chunks of the model that hold capitals.
LowerChunk(c) ==
    CASE c = ".BAK"      -> ".bak"
      [] c = ".LOG"      -> ".log"
      [] c = "/Archive/" -> "/archive/"
      [] c = "_OLD."     -> "_old."
      [] OTHER           -> c

\* path.lower()
Lower(path) == [i \in DOMAIN path |-> LowerChunk(path[i])]

\* pattern in path
Contains(path, pattern) == \E i \in DOMAIN path : path[i] = pattern

\* path.startswith(prefix)
StartsWith(path, prefix) == path # <<>> /\ path[1] = prefix

\* The suffix looked for at the start of the path.
AtStart(path, suffix) == path # <<>> /\ path[1] = suffix

\* path.endswith(suffix)
EndsWith(path, suffix) == path # <<>> /\ path[Len(path)] = suffix

_is_archive_pattern(path) ==
    LET archive_patterns ==
            {"/archive/", "/archived/", "/archives/", "/legacy/",
             "/deprecated/", "/old/"}
    IN  \E pattern \in archive_patterns : Contains(Lower(path), pattern)

_is_legacy_pattern(path) ==
    LET legacy_patterns ==
            {"_legacy.", "-legacy.", "_old.", "-old.", "_deprecated.",
             "-deprecated.", "_backup.", "-backup."}
        lower_path == Lower(path)
    IN  \E pattern \in legacy_patterns : Contains(lower_path, pattern)

_is_backup_pattern(path) ==
    LET backup_patterns ==
            {".bak", ".backup", "~", ".swp", ".swo", ".orig", ".copy"}
    IN  \E pattern \in backup_patterns : EndsWith(path, pattern)

(***************************************************************************)
(* FileLifecycleRecommendation.  reasons is a list of JSON values (the     *)
(* rule engine puts strings there); suggested_action is a sequence of      *)
(* chunks of text, the empty sequence standing for None.                   *)
(***************************************************************************)
NoAction == <<>>

FileLifecycleRecommendation(path, rec, conf, reasons, action) ==
    [path |-> path, recommendation |-> rec, confidence |-> conf,
     reasons |-> reasons, suggested_action |-> action]

\* Path(path).parent, as text: kept abstract, the chunks of a path do not
\* tell where its last "/" is.
\* No action where the move is advised.
AlreadyArchived(path) == <<>>

Parent(path) == <<"{parent of ">> \o path \o <<"}">>

\* f"Move to docs/archive/{Path(path).parent}/"
MoveToArchive(path) == <<"Move to ", "docs/archive/">> \o Parent(path) \o <<"/">>

(***************************************************************************)
(* The rule engine: _classify_file(path, age_days, kind) with              *)
(* self.deprecation_days = T.                                              *)
(***************************************************************************)
\* The comparison with > for >=.
AgeAbove(age_days, twice_bound) == 2 * age_days > twice_bound

\* "age_days >= bound", the bound given doubled (T * 1.5 is no integer).
AgeAtLeast(age_days, twice_bound) == 2 * age_days >= twice_bound

\* " deprecation threshold ({self.deprecation_days} days)"
ThresholdText(T) == " deprecation threshold (" \o ToString(T) \o " days)"

_classify_file(path, age_days, kind, T) ==
    IF _is_archive_pattern(path) THEN
        FileLifecycleRecommendation(path, "archive", 95,
            <<JStr("Already in archive directory"),
              JStr("Standard archive pattern")>>,
            NoAction)
    ELSE IF _is_legacy_pattern(path) THEN
        FileLifecycleRecommendation(path, "archive", 90,
            <<JStr("Legacy file pattern detected"),
              JStr("Should be preserved")>>,
            MoveToArchive(path))
    ELSE IF _is_backup_pattern(path) THEN
        FileLifecycleRecommendation(path, "delete", 85,
            <<JStr("Backup file pattern"), JStr("Safe to remove")>>,
            <<"Delete", " file (backup copy)">>)
    ELSE IF AgeAtLeast(age_days, 6 * T) THEN
        FileLifecycleRecommendation(path, "archive", 80,
            <<JStr("Last modified " \o ToString(age_days) \o " days ago"),
              JStr("Exceeds 3x" \o ThresholdText(T)),
              JStr("File type: " \o kind)>>,
            MoveToArchive(path))
    ELSE IF AgeAtLeast(age_days, 3 * T) THEN
        FileLifecycleRecommendation(path, "review", 65,
            <<JStr("Last modified " \o ToString(age_days) \o " days ago"),
              JStr("Exceeds 1.5x" \o ThresholdText(T)),
              JStr("File type: " \o kind)>>,
            <<"Manual review recommended">>)
    ELSE IF AgeAtLeast(age_days, 2 * T) THEN
        FileLifecycleRecommendation(path, "review", 60,
            <<JStr("Last modified " \o ToString(age_days) \o " days ago"),
              JStr("Reaches" \o ThresholdText(T))>>,
            NoAction)
    ELSE
        FileLifecycleRecommendation(path, "keep", 90,
            <<JStr("Recently modified (" \o ToString(age_days) \o " days ago)"),
              JStr("File type: " \o kind)>>,
            NoAction)

\* The rule fallback of classify(): _classify_file on the entry's fields.
RuleRecommendation(entry, T) ==
    _classify_file(entry.path, entry.age, entry.kind, T)

\* A filter that forces delete for every file.
ForcesDelete(entry) == [clear |-> TRUE, forced |-> "delete"]

\* A filter that finds no file clear.
NoClearCase(entry) == [clear |-> FALSE, forced |-> "None"]

(***************************************************************************)
(* The clear-case filter: [clear |-> is_clear, forced |-> forced_decision] *)
(* with forced = "None" when there is none.                                *)
(***************************************************************************)
_is_clear_case(entry) ==
    LET path == entry.path
        kind == entry.kind
        age_days == entry.age
        core_dirs == {"digital_me/core", "digital_me/api",
                      "digital_me/orchestration", "digital_me_platform",
                      "scripts/", "tests/"}
        lower == Lower(path)
    IN  IF age_days < ClearKeepMaxAge
           /\ \E d \in core_dirs : StartsWith(path, d)
        THEN [clear |-> TRUE, forced |-> "keep"]
        ELSE IF \E s \in {".log", ".tmp", ".bak", "~", ".swp"} :
                    Contains(lower, s)
        THEN [clear |-> TRUE, forced |-> "archive"]
        ELSE IF age_days > ClearReviewMinAge
                /\ kind \in {"md", "txt", "doc", "json"}
        THEN [clear |-> TRUE, forced |-> "review"]
        ELSE [clear |-> FALSE, forced |-> "None"]

\* A clear case with a confidence under the gate.
HalfSureClearCase(entry, forced_decision) ==
    [path |-> entry.path, recommendation |-> forced_decision,
     confidence |-> 50,
     reasons |-> <<JStr("Rule-based clear case: " \o forced_decision)>>,
     suggested_action |-> <<>>]

\* The recommendation classify() builds for a clear case.
ClearCaseRecommendation(entry, forced_decision) ==
    FileLifecycleRecommendation(entry.path, forced_decision,
        ClearCaseConfidence,
        <<JStr("Rule-based clear case: " \o forced_decision)>>,
        NoAction)

(***************************************************************************)
(* Generator texts and the JSON extractor.  A text is a sequence of        *)
(* tokens.  A Json token is the serialization of one JSON value: of an     *)
(* object it starts with "{" and ends with "}".  Lists hold scalars and    *)
(* strings hold neither braces nor backticks.                              *)
(***************************************************************************)
Ws == [k |-> "ws"]
Prose(s) == [k |-> "prose", s |-> s]
LBrace == [k |-> "lbrace"]
RBrace == [k |-> "rbrace"]
Fence == [k |-> "fence"]
FenceJson == [k |-> "fencejson"]
Json(v) == [k |-> "json", v |-> v]

SetMin(S) == CHOOSE x \in S : \A y \in S : x <= y
SetMax(S) == CHOOSE x \in S : \A y \in S : x >= y

\* str.strip()
Strip(text) ==
    LET solid == {i \in DOMAIN text : text[i].k # "ws"}
    IN  IF solid = {} THEN <<>>
        ELSE SubSeq(text, SetMin(solid), SetMax(solid))

\* json.loads(text): [ok |-> TRUE, v |-> the value], ok = FALSE when it raises.
\* White space around the value is accepted; "{" white space "}" is {}.
LoadsStripped(t) ==
    IF Len(t) = 1 /\ t[1].k = "json"
    THEN [ok |-> TRUE, v |-> t[1].v]
    ELSE IF /\ Len(t) >= 2
            /\ t[1].k = "lbrace"
            /\ t[Len(t)].k = "rbrace"
            /\ \A i \in 2..(Len(t) - 1) : t[i].k = "ws"
    THEN [ok |-> TRUE, v |-> JObj(NoFields)]
    ELSE [ok |-> FALSE, v |-> JNull]

JsonLoads(text) == LoadsStripped(Strip(text))

\* "```" in token: both fences hold three backticks.
IsFence(tok) == tok.k \in {"fence", "fencejson"}

\* Indices of the "```" occurrences of a text.
FenceAt(text) == {i \in DOMAIN text : IsFence(text[i])}

\* What follows "```" in a token: "```json" leaves "json".
AfterFence(tok) == IF tok.k = "fencejson" THEN <<Prose("json")>> ELSE <<>>

\* Indices of the "```json" occurrences of a text.
FenceJsonAt(text) == {i \in DOMAIN text : text[i].k = "fencejson"}

\* text.split("```json", 1)[1].split("```", 1)[0], given where "```json" is
\* first and where "```" follows it.
InsideJsonFence(text, j1, closing) == SubSeq(text, j1 + 1, SetMin(closing) - 1)

\* text.split("```")[1], given the first two "```".
InsideFences(text, f1, f2) ==
    AfterFence(text[f1]) \o SubSeq(text, f1 + 1, f2 - 1)

\* The body of _strip_code_fences, past "text = text.strip()".
StripFences(text, fences, jsons) ==
    IF fences = {} THEN text
    ELSE IF jsons # {} /\ {i \in fences : i > SetMin(jsons)} # {}
    THEN Strip(InsideJsonFence(text, SetMin(jsons),
                               {i \in fences : i > SetMin(jsons)}))
    ELSE IF Cardinality(fences) >= 2
    THEN Strip(InsideFences(text, SetMin(fences),
                            SetMin(fences \ {SetMin(fences)})))
    ELSE text

StripFencesOf(text) == StripFences(text, FenceAt(text), FenceJsonAt(text))

_strip_code_fences(raw) == StripFencesOf(Strip(raw))

\* Tokens that hold "{" and tokens that hold "}".
HasOpenBrace(tok) == tok.k = "lbrace" \/ (tok.k = "json" /\ tok.v.t = "obj")
HasCloseBrace(tok) == tok.k = "rbrace" \/ (tok.k = "json" /\ tok.v.t = "obj")

\* _parse_llm_json(raw_text): the parsed value, JNull standing for None
\* (json.loads of the text null returns None as well).
\* Strategy 3 (lines 179-186) on stripped[first : last + 1]: the parsed
\* value, or JNull.
ParseCandidate(loaded) == IF loaded.ok THEN loaded.v ELSE JNull

ExtractBlock(stripped, first, last) ==
    IF last > first \/ (last = first /\ stripped[first].k = "json")
    THEN ParseCandidate(JsonLoads(SubSeq(stripped, first, last)))
    ELSE JNull

FirstBlock(stripped, opens, closes) ==
    IF opens # {} /\ closes # {}
    THEN ExtractBlock(stripped, SetMin(opens), SetMax(closes))
    ELSE JNull

\* Strategies 2 and 3 (lines 172-188) on the fence-stripped text.
ParseStripped(stripped, fenced) ==
    IF fenced.ok THEN fenced.v
    ELSE FirstBlock(stripped,
             {i \in DOMAIN stripped : HasOpenBrace(stripped[i])},
             {i \in DOMAIN stripped : HasCloseBrace(stripped[i])})

ParseFenced(stripped) == ParseStripped(stripped, JsonLoads(stripped))

\* Strategy 1 (lines 162-169), then the others.
ParseDirect(cls_text, direct) ==
    IF cls_text = <<>> THEN JNull
    ELSE IF direct.ok THEN direct.v
    ELSE ParseFenced(_strip_code_fences(cls_text))

ParseText(cls_text) == ParseDirect(cls_text, LoadsStripped(cls_text))

_parse_llm_json(raw_text) == ParseText(Strip(raw_text))

(***************************************************************************)
(* The LLM adapter.  A response of llm_client.generate() is an exception   *)
(* (Raises), nothing (ReturnsNone) or a text (a text without tokens is     *)
(* the empty string).                                                      *)
(***************************************************************************)
Raises == [kind |-> "raise"]
ReturnsNone == [kind |-> "none"]
ReturnsText(text) == [kind |-> "text", text |-> text]

\* "if not response_text"
IsEmptyResponse(response) ==
    response.kind = "none" \/ (response.kind = "text" /\ response.text = <<>>)

\* str.lower() of a decision label; the labels of the model with capitals.
LowerLabel(s) ==
    CASE s = "ARCHIVE" -> "archive"
      [] s = "Delete"  -> "delete"
      [] OTHER         -> s

NoRecommendation == [kind |-> "None"]

\* The label left as the generator gave it.
Ungated(rec_label, confidence) == rec_label

\* The safety gate (lines 357-360): a low-confidence archive or delete
\* becomes review.
SafetyGate(rec_label, confidence) ==
    IF confidence < SafetyGateConfidence /\ rec_label \in {"archive", "delete"}
    THEN "review" ELSE rec_label

\* The fields the adapter builds from a parsed object (lines 338-368).
ValidatedRecommendation(path, parsed) ==
    LET label == LowerLabel(PyOr(DictGet(parsed, "recommendation", JNull),
                                 JStr("review")).s)
        rec_label == IF label \in {"keep", "review", "archive", "delete"}
                     THEN label ELSE "review"
        as_float == PyFloat(DictGet(parsed, "confidence",
                                    JNum(DefaultLLMConfidence)))
        confidence == IF as_float.ok THEN Clamp01(as_float.v)
                      ELSE Clamp01(JNum(DefaultLLMConfidence))
        raw_reasons == PyOr(DictGet(parsed, "reasons", JNull), JList(<<>>))
        reasons == IF raw_reasons.t = "list" THEN raw_reasons.items
                   ELSE <<JStr(PyStr(raw_reasons))>>
        raw_action == DictGet(parsed, "suggested_action", JNull)
        suggested_action == IF Truthy(raw_action) THEN <<PyStr(raw_action)>>
                            ELSE NoAction
    IN  FileLifecycleRecommendation(path, SafetyGate(rec_label, confidence),
                                    confidence, reasons, suggested_action)

\* parsed.get(...) raises AttributeError when parsed is no dict, and
\* (parsed.get("recommendation") or "review").lower() when the value is
\* truthy and no string.
ValidationRaises(parsed) ==
    \/ parsed.t # "obj"
    \/ PyOr(DictGet(parsed, "recommendation", JNull), JStr("review")).t # "str"

\* A parse that fails without being counted as failed.
UncountedFailure(entry, parsed, stats, parse1) ==
    [ret |-> "None", rec |-> NoRecommendation,
     stats |-> [stats EXCEPT !.fallbacks = @ + 1], parse |-> parse1]

\* _classify_with_llm(entry, llm_client) with the client answering `response`:
\*   ret   "rec" (a recommendation is returned), "None", or "raise" (an
\*         exception leaves the method);
\*   rec   the recommendation returned;
\*   stats, parse   self._llm_stats and self._llm_parse_stats afterwards.
\* The adapter past the parse (lines 329-368); parse1 counts the attempt.
AfterParse(entry, parsed, stats, parse1) ==
    IF ~Truthy(parsed)
    THEN [ret |-> "None", rec |-> NoRecommendation,
          stats |-> [stats EXCEPT !.fallbacks = @ + 1],
          parse |-> [parse1 EXCEPT !.parse_failed = @ + 1]]
    ELSE IF ValidationRaises(parsed)
    THEN [ret |-> "raise", rec |-> NoRecommendation,
          stats |-> [stats EXCEPT !.successes = @ + 1],
          parse |-> [parse1 EXCEPT !.parse_success = @ + 1]]
    ELSE [ret |-> "rec",
          rec |-> ValidatedRecommendation(entry.path, parsed),
          stats |-> [stats EXCEPT !.successes = @ + 1],
          parse |-> [parse1 EXCEPT !.parse_success = @ + 1]]

_classify_with_llm(entry, response, stats, parse) ==
    IF response.kind = "raise" \/ IsEmptyResponse(response)
    THEN [ret |-> "None", rec |-> NoRecommendation,
          stats |-> [stats EXCEPT !.fallbacks = @ + 1], parse |-> parse]
    ELSE AfterParse(entry, _parse_llm_json(response.text), stats,
                    [parse EXCEPT !.attempts = @ + 1])

(***************************************************************************)
(* The inputs of the model: repository indexes and generator responses.    *)
(***************************************************************************)
\* File entries of an index, with the age the clock of the run gives them.
CoreFile == [path |-> <<"scripts/", "run", ".py">>, kind |-> "py", age |-> 5]
BackupFile == [path |-> <<"src/", "main", ".bak">>, kind |-> "other", age |-> 10]
NewFile == [path |-> <<"src/", "main", ".py">>, kind |-> "py", age |-> 10]
OldFile == [path |-> <<"src/", "util", ".py">>, kind |-> "py", age |-> 300]
OldDoc == [path |-> <<"docs/", "notes", ".md">>, kind |-> "md", age |-> 400]
Catalogue == {CoreFile, BackupFile, NewFile, OldFile, OldDoc}

\* The indexes: lists of at most MaxFiles entries with distinct paths.
Indexes ==
    UNION {{f \in [1..n -> Catalogue] :
                \A i, j \in 1..n : i # j => f[i].path # f[j].path} :
           n \in 0..MaxFiles}

\* A well-formed answer: the four keys of the prompt.
Answer(rec, conf, reasons, action) ==
    JObj([k \in {"recommendation", "confidence", "reasons", "suggested_action"}
            |-> CASE k = "recommendation" -> rec
                  [] k = "confidence" -> conf
                  [] k = "reasons" -> reasons
                  [] k = "suggested_action" -> action])

SomeReasons == JList(<<JStr("looks unused")>>)

\* The texts the generator of the runs answers with.
DirectLowArchive ==
    <<Json(Answer(JStr("archive"), JNum(40), SomeReasons, JStr("Move it")))>>
FencedDelete ==
    <<Prose("Here is the JSON:"), Ws, FenceJson, Ws,
      Json(Answer(JStr("delete"), JNum(95), SomeReasons, JNull)), Ws, Fence>>
UnclosedThinkUnknownLabel ==
    <<Prose("<think>"), Prose("not sure"), Ws,
      Json(Answer(JStr("purge"), JNum(150), JStr("stale"), JNull))>>
NonNumericConfidence ==
    <<Json(Answer(JStr("keep"), JStr("high"), JNull, JNull))>>
ProseOnly == <<Prose("<think>"), Prose("I cannot decide")>>
ListAnswer == <<Json(JList(<<JNum(100)>>))>>
NumericDecision ==
    <<Json(Answer(JNum(500), JNum(90), SomeReasons, JNull))>>

\* The empty string.
EmptyText == <<>>

\* The outcomes of a call the adapter is written for: the call raises,
\* returns nothing or the empty string, returns text that holds no JSON, or
\* returns text that holds a JSON object with a textual decision.
OutcomeResponses ==
    {Raises, ReturnsNone} \cup
    {ReturnsText(t) : t \in {EmptyText, DirectLowArchive, FencedDelete,
                             UnclosedThinkUnknownLabel, NonNumericConfidence,
                             ProseOnly}}

\* ... and with them the texts whose JSON is no such object.
GeneratorResponses ==
    OutcomeResponses \cup {ReturnsText(t) : t \in {ListAnswer, NumericDecision}}

(***************************************************************************)
(* The classifier and its runs.                                            *)
(***************************************************************************)
VARIABLES
    files,               \* the "files" list of the index at index_path
    llm_mode,            \* self.llm_mode
    llm_max_files,       \* self.llm_max_files: <<>> is None, <<n>> is n
    deprecation_days,    \* self.deprecation_days
    _llm_stats,          \* self._llm_stats
    _llm_parse_stats,    \* self._llm_parse_stats
    pc,                  \* where classify() is: idle, phase2, full, done, raised
    use_llm,             \* the use_llm argument of the running call
    llm_client,          \* its llm_client: "None", "unavailable", "available"
    llm_calls,           \* the local llm_calls
    by_path,             \* the local by_path: a dict, in insertion order
    uncertain_entries,   \* the local uncertain_entries
    pos,                 \* the next entry of the running loop
    result,              \* what the last call returned
    exc,                 \* the exception the last call raised, or "None"
    runs,                \* classify() calls made so far
    generate_calls,      \* llm_client.generate() calls of the last call
    probe_calls,         \* llm_client.is_available() calls of the last call
    last_response,       \* what generate() answered in the last step
    output,              \* the payload in the file at output_path
    client,              \* a LocalLLMClient (src/codewiki/llm_client.py)
    kept                 \* a result of an earlier call the caller still holds

vars == <<files, llm_mode, llm_max_files, deprecation_days, _llm_stats,
          _llm_parse_stats, pc, use_llm, llm_client, llm_calls, by_path,
          uncertain_entries, pos, result, exc, runs, generate_calls,
          probe_calls, last_response, output, client, kept>>

\* What __init__ leaves alone afterwards, and the index on disk.
config == <<files, llm_mode, llm_max_files, deprecation_days>>

None == <<>>
NoCall == [kind |-> "no call"]
NoResult == [kind |-> "None"]
NoOutput == [kind |-> "no file"]
NoClient == [pc |-> "none"]
LifecycleResult(scan_metadata, recommendations) ==
    [kind |-> "LifecycleResult", scan_metadata |-> scan_metadata,
     recommendations |-> recommendations]

\* The largest llm_max_files the model configures.
MaxBudget == 1

LLMModes == {"full", "hybrid", "lir"}
Budgets == {None} \cup {<<n>> : n \in 0..MaxBudget}
Clients == {"None", "unavailable", "available"}

\* d[key] = value on an insertion-ordered dict
DictSet(d, key, value) ==
    IF \E i \in DOMAIN d : d[i].key = key
    THEN [i \in DOMAIN d |->
             IF d[i].key = key THEN [key |-> key, value |-> value] ELSE d[i]]
    ELSE Append(d, [key |-> key, value |-> value])

\* d[key]
DictLookup(d, key) == d[CHOOSE i \in DOMAIN d : d[i].key = key].value

\* __init__ (lines 106-123) with the index on disk
InitWithClient(mode, budget, index, T, c) ==
    /\ client = c
    /\ kept = NoResult
    /\ files = index
    /\ llm_mode = mode
    /\ llm_max_files = budget
    /\ deprecation_days = T
    /\ _llm_stats = [attempts |-> 0, successes |-> 0, fallbacks |-> 0]
    /\ _llm_parse_stats = [attempts |-> 0, parse_success |-> 0, parse_failed |-> 0]
    /\ pc = "idle"
    /\ use_llm = FALSE
    /\ llm_client = "None"
    /\ llm_calls = 0
    /\ by_path = <<>>
    /\ uncertain_entries = <<>>
    /\ pos = 1
    /\ result = NoResult
    /\ exc = "None"
    /\ runs = 0
    /\ generate_calls = 0
    /\ probe_calls = 0
    /\ last_response = NoCall
    /\ output = NoOutput

\* ... without a LocalLLMClient
InitWithThreshold(mode, budget, index, T) ==
    InitWithClient(mode, budget, index, T, NoClient)

\* ... with the default deprecation_days
InitClassifier(mode, budget, index) ==
    InitWithThreshold(mode, budget, index, DefaultDeprecationDays)

Init ==
    \E mode \in LLMModes, budget \in Budgets, index \in Indexes :
        InitClassifier(mode, budget, index)

\* A call of classify() may start when none is running.
CanCall == pc \in {"idle", "done", "raised"} /\ runs < MaxRuns

\* What every call of classify(use_llm=u, llm_client=c) sets up.
Enter(u, c) ==
    /\ CanCall
    /\ runs' = runs + 1
    /\ use_llm' = u
    /\ llm_client' = c
    /\ llm_calls' = 0
    /\ generate_calls' = 0
    /\ last_response' = NoCall
    /\ pos' = 1
    /\ UNCHANGED <<config, output, client, kept>>

\* The test without the availability probe.
RuleBasedWithoutProbe(u, c) == ~u \/ c = "None"

\* "not use_llm or llm_client is None or not llm_client.is_available()"
RuleBasedOnly(u, c) == ~u \/ c = "None" \/ c = "unavailable"

\* is_available() is reached only past "not use_llm or llm_client is None".
ProbesOf(u, c) == IF u /\ c # "None" THEN 1 ELSE 0

\* load_repo_index() raises FileNotFoundError (lines 127-128, 388).
ClassifyMissingIndex ==
    \E u \in BOOLEAN, c \in Clients :
        /\ Enter(u, c)
        /\ pc' = "raised"
        /\ exc' = "FileNotFoundError"
        /\ result' = NoResult
        /\ probe_calls' = 0
        /\ by_path' = <<>>
        /\ uncertain_entries' = <<>>
        /\ UNCHANGED <<_llm_stats, _llm_parse_stats>>

\* The rule-based run (lines 393-415).
ClassifyRuleBased ==
    \E u \in BOOLEAN, c \in Clients :
        /\ RuleBasedOnly(u, c)
        /\ Enter(u, c)
        /\ probe_calls' = ProbesOf(u, c)
        /\ result' = LifecycleResult(
               [classification_method |-> "rule-based-v1"],
               [i \in DOMAIN files |->
                   RuleRecommendation(files[i], deprecation_days)])
        /\ pc' = "done"
        /\ exc' = "None"
        /\ by_path' = <<>>
        /\ uncertain_entries' = <<>>
        /\ UNCHANGED <<_llm_stats, _llm_parse_stats>>

\* No entry taken for a clear case.
NeverForced(entry) == FALSE

\* Phase 1 of the hybrid mode (lines 426-438): the clear cases, in by_path.
IsForced(entry) ==
    _is_clear_case(entry).clear /\ _is_clear_case(entry).forced # "None"

RECURSIVE ClearCases(_, _)
ClearCases(entries, d) ==
    IF entries = <<>> THEN d
    ELSE LET entry == Head(entries)
         IN  ClearCases(Tail(entries),
                 IF IsForced(entry)
                 THEN DictSet(d, entry.path,
                          ClearCaseRecommendation(entry,
                              _is_clear_case(entry).forced))
                 ELSE d)

\* ... and the entries left for phase 2.
UncertainEntries(entries) == SelectSeq(entries, LAMBDA e : ~IsForced(e))

\* The LLM-enabled run starts in hybrid mode (lines 417-438).
ClassifyBeginHybrid ==
    /\ llm_mode = "hybrid"
    /\ \E u \in BOOLEAN, c \in Clients :
           /\ ~RuleBasedOnly(u, c)
           /\ Enter(u, c)
           /\ probe_calls' = ProbesOf(u, c)
    /\ by_path' = ClearCases(files, <<>>)
    /\ uncertain_entries' = UncertainEntries(files)
    /\ pc' = "phase2"
    /\ exc' = "None"
    /\ result' = NoResult
    /\ UNCHANGED <<_llm_stats, _llm_parse_stats>>

\* Any other mode starting with the filter, as the hybrid mode does.
ClassifyBeginFiltered ==
    /\ llm_mode # "hybrid"
    /\ \E u \in BOOLEAN, c \in Clients :
           /\ ~RuleBasedOnly(u, c)
           /\ Enter(u, c)
           /\ probe_calls' = ProbesOf(u, c)
    /\ by_path' = ClearCases(files, <<>>)
    /\ uncertain_entries' = UncertainEntries(files)
    /\ pc' = "phase2"
    /\ exc' = "None"
    /\ result' = NoResult
    /\ UNCHANGED <<_llm_stats, _llm_parse_stats>>

\* The LLM-enabled run starts in any other mode (lines 417-422, 464).
ClassifyBeginFull ==
    /\ llm_mode # "hybrid"
    /\ \E u \in BOOLEAN, c \in Clients :
           /\ ~RuleBasedOnly(u, c)
           /\ Enter(u, c)
           /\ probe_calls' = ProbesOf(u, c)
    /\ by_path' = <<>>
    /\ uncertain_entries' = <<>>
    /\ pc' = "full"
    /\ exc' = "None"
    /\ result' = NoResult
    /\ UNCHANGED <<_llm_stats, _llm_parse_stats>>

\* One pass of a loop body that calls the LLM (lines 448-462, 466-480):
\* the attempt is counted, the adapter runs, the rules stand in for None.
\* "if rec is None: rec = self._classify_file(...)"
OrRuleFallback(out, entry) ==
    IF out.ret = "None" THEN RuleRecommendation(entry, deprecation_days)
    ELSE out.rec

AttemptEntry(entry, response) ==
    \E out \in {_classify_with_llm(entry, response,
                    [_llm_stats EXCEPT !.attempts = @ + 1],
                    _llm_parse_stats)} :
        /\ _llm_stats' = out.stats
        /\ _llm_parse_stats' = out.parse
        /\ llm_calls' = llm_calls + 1
        /\ generate_calls' = generate_calls + 1
        /\ last_response' = response
        /\ IF out.ret = "raise"
           THEN /\ pc' = "raised"
                /\ exc' = "AttributeError"
                /\ by_path' = <<>>
                /\ uncertain_entries' = <<>>
                /\ pos' = 1
           ELSE /\ by_path' = DictSet(by_path, entry.path,
                                      OrRuleFallback(out, entry))
                /\ pos' = pos + 1
                /\ UNCHANGED <<pc, exc, uncertain_entries>>
        /\ UNCHANGED <<config, use_llm, llm_client, result, runs, probe_calls,
                       output, client, kept>>

\* The budget test with <= for <.
UseLLMUpToBudget ==
    IF llm_max_files = None THEN TRUE ELSE llm_calls <= llm_max_files[1]

\* "self.llm_max_files is None or llm_calls < self.llm_max_files"
UseLLMForThis ==
    IF llm_max_files = None THEN TRUE ELSE llm_calls < llm_max_files[1]

\* Phase 2 of the hybrid mode, within the budget (lines 441-462).
HybridAttempt(responses) ==
    /\ pc = "phase2"
    /\ pos <= Len(uncertain_entries)
    /\ UseLLMForThis
    /\ \E response \in responses :
           AttemptEntry(uncertain_entries[pos], response)

\* Phase 2 of the hybrid mode, the budget spent (lines 441-446, 452-462).
HybridOverBudget ==
    /\ pc = "phase2"
    /\ pos <= Len(uncertain_entries)
    /\ ~UseLLMForThis
    /\ by_path' = DictSet(by_path, uncertain_entries[pos].path,
           RuleRecommendation(uncertain_entries[pos], deprecation_days))
    /\ pos' = pos + 1
    /\ last_response' = NoCall
    /\ UNCHANGED <<config, _llm_stats, _llm_parse_stats, pc, use_llm,
                   llm_client, llm_calls, uncertain_entries, result, exc,
                   runs, generate_calls, probe_calls, output, client, kept>>

\* The loop of the full mode (lines 465-480).
FullAttempt(responses) ==
    /\ pc = "full"
    /\ pos <= Len(files)
    /\ \E response \in responses : AttemptEntry(files[pos], response)

\* The values of the dict in the order of their insertion.
InsertionOrder(entries, d) == [i \in DOMAIN d |-> d[i].value]

\* "recommendations = [by_path[entry["path"]] for entry in files]"
OrderedRecommendations(entries, d) ==
    [i \in DOMAIN entries |-> DictLookup(d, entries[i].path)]

\* The loops are over.
LoopDone ==
    \/ pc = "phase2" /\ pos > Len(uncertain_entries)
    \/ pc = "full" /\ pos > Len(files)

\* The metadata of an LLM-enabled run (lines 498-511).  llm_stats and
\* llm_parse are the classifier's own dicts, not copies: the metadata holds
\* references, and reading a counter reads the classifier's.
LLMMetadata ==
    [classification_method |-> "llm-enhanced",
     llm_stats |-> "self._llm_stats",
     llm_parse |-> "self._llm_parse_stats",
     llm_mode |-> llm_mode,
     llm_max_files |-> llm_max_files,
     llm_calls |-> llm_calls]

\* The end of the LLM-enabled run (lines 483-516).
ClassifyFinish ==
    /\ LoopDone
    /\ result' = LifecycleResult(LLMMetadata,
                                 OrderedRecommendations(files, by_path))
    /\ pc' = "done"
    /\ UNCHANGED <<config, _llm_stats, _llm_parse_stats, use_llm, llm_client,
                   llm_calls, by_path, uncertain_entries, pos, exc, runs,
                   generate_calls, probe_calls, last_response, output,
                   client, kept>>

\* The confidence a recommendation needs for the high and the medium bucket.
HighConfidence == 80
MediumConfidence == 60

\* One bucket only below the high one.
TwoBuckets(confidence) ==
    IF confidence >= HighConfidence THEN "high" ELSE "low"

\* The if / elif / else of _summarize (lines 670-675).
Bucket(confidence) ==
    IF confidence >= HighConfidence THEN "high"
    ELSE IF confidence >= MediumConfidence THEN "medium"
    ELSE "low"

\* How many recommendations of the list are in a bucket, and how many hold
\* a decision.
InBucket(recs, b) ==
    Cardinality({i \in DOMAIN recs : Bucket(recs[i].confidence) = b})
WithDecision(recs, d) ==
    Cardinality({i \in DOMAIN recs : recs[i].recommendation = d})

\* _summarize(result): counts holds a key for each decision met.
Summarize(recs) ==
    [total_files |-> Len(recs),
     by_decision |-> [d \in {recs[i].recommendation : i \in DOMAIN recs}
                         |-> WithDecision(recs, d)],
     confidence_distribution |->
         [b \in {"high", "medium", "low"} |-> InBucket(recs, b)]]

_summarize(res) == Summarize(res.recommendations)

\* save_result(result) on the result of a completed call (lines 640-658).
SaveResult ==
    /\ pc = "done"
    /\ output' = [scan_metadata |-> result.scan_metadata,
                  recommendations |-> result.recommendations,
                  summary |-> _summarize(result)]
    /\ UNCHANGED <<config, _llm_stats, _llm_parse_stats, pc, use_llm,
                   llm_client, llm_calls, by_path, uncertain_entries, pos,
                   result, exc, runs, generate_calls, probe_calls,
                   last_response, client, kept>>

Next ==
    \/ ClassifyMissingIndex
    \/ ClassifyRuleBased
    \/ ClassifyBeginHybrid
    \/ ClassifyBeginFull
    \/ HybridAttempt(GeneratorResponses)
    \/ HybridOverBudget
    \/ FullAttempt(GeneratorResponses)
    \/ ClassifyFinish

Spec == Init /\ [][Next]_vars

(***************************************************************************)
(* The same runs with a generator whose every answer is one of             *)
(* OutcomeResponses.                                                       *)
(***************************************************************************)
NextOutcomes ==
    \/ ClassifyMissingIndex
    \/ ClassifyRuleBased
    \/ ClassifyBeginHybrid
    \/ ClassifyBeginFull
    \/ HybridAttempt(OutcomeResponses)
    \/ HybridOverBudget
    \/ FullAttempt(OutcomeResponses)
    \/ ClassifyFinish

SpecOutcomes == Init /\ [][NextOutcomes]_vars

\* The caller keeps the result of a completed call ("r1 = c.classify(...)")
\* while it goes on using the classifier.
KeepResult ==
    /\ pc = "done"
    /\ kept' = result
    /\ UNCHANGED <<config, _llm_stats, _llm_parse_stats, pc, use_llm,
                   llm_client, llm_calls, by_path, uncertain_entries, pos,
                   result, exc, runs, generate_calls, probe_calls,
                   last_response, output, client>>

\* What the generator of the runs with a kept result answers.
KeptResponses == {Raises, ReturnsText(ProseOnly), ReturnsText(FencedDelete)}

NextKept ==
    \/ ClassifyRuleBased
    \/ ClassifyBeginHybrid
    \/ ClassifyBeginFull
    \/ HybridAttempt(KeptResponses)
    \/ HybridOverBudget
    \/ FullAttempt(KeptResponses)
    \/ ClassifyFinish
    \/ KeepResult

InitKept ==
    \E mode \in {"full", "hybrid"}, budget \in Budgets, index \in Indexes :
        InitClassifier(mode, budget, index)

SpecKept == InitKept /\ [][NextKept]_vars

\* Runs whose generator is available and fails on every call: it raises,
\* returns nothing or the empty string, or text that holds no JSON.
FailingResponses ==
    {Raises, ReturnsNone, ReturnsText(EmptyText), ReturnsText(ProseOnly)}

InitFailing ==
    \E budget \in Budgets, index \in Indexes :
        InitClassifier("full", budget, index)

NextFailing ==
    \/ ClassifyRuleBased
    \/ ClassifyBeginFull
    \/ FullAttempt(FailingResponses)
    \/ ClassifyFinish
    \/ KeepResult

SpecFailing == InitFailing /\ [][NextFailing]_vars

\* Runs whose results are saved.
NextSaved ==
    \/ ClassifyRuleBased
    \/ ClassifyBeginHybrid
    \/ ClassifyBeginFull
    \/ HybridAttempt(OutcomeResponses)
    \/ HybridOverBudget
    \/ FullAttempt(OutcomeResponses)
    \/ ClassifyFinish
    \/ SaveResult

InitSaved ==
    \E mode \in {"full", "hybrid"}, budget \in Budgets, index \in Indexes :
        InitClassifier(mode, budget, index)

SpecSaved == InitSaved /\ [][NextSaved]_vars

(***************************************************************************)
(* The adapter against every shape of answer: runs over an index of one    *)
(* file in which the generator may answer with any value of                *)
(* AdapterResponses.                                                       *)
(***************************************************************************)
\* A key the answer does not hold.
Missing == [t |-> "missing"]

AnswerKeys == {"recommendation", "confidence", "reasons", "suggested_action"}

\* The object with the keys whose value is not Missing.
MakeObj(rec, conf, reasons, action) ==
    JObj([k \in {key \in AnswerKeys :
                    Answer(rec, conf, reasons, action).fields[key] # Missing}
            |-> Answer(rec, conf, reasons, action).fields[k]])

RecommendationOptions ==
    {Missing, JNull, JStr(""), JStr("keep"), JStr("archive"), JStr("delete"),
     JStr("review"), JStr("ARCHIVE"), JStr("Delete"), JStr("purge"),
     JNum(500), JNum(0), JBool(TRUE), JList(<<JStr("delete")>>)}

ConfidenceOptions ==
    {Missing, JNull, JNum(0 - 50), JNum(0), JNum(40), JNum(59), JNum(60),
     JNum(70), JNum(100), JNum(150), JNaN, JStr("0.4"), JStr("0.95"),
     JStr("high"), JStr("nan"), JBool(TRUE), JBool(FALSE), JList(<<>>)}

ReasonsOptions ==
    {Missing, SomeReasons, JStr("stale"), JList(<<JNum(100), JNull>>), JNum(0)}

ActionOptions == {Missing, JStr("Move it"), JNum(700)}

AdapterObjects ==
    {MakeObj(r, c, rs, a) : r \in RecommendationOptions,
                            c \in ConfidenceOptions,
                            rs \in ReasonsOptions,
                            a \in ActionOptions}

NonObjects ==
    {JNull, JBool(TRUE), JBool(FALSE), JNum(0), JNum(500), JNaN, JStr(""),
     JStr("keep"), JList(<<>>), JList(<<JNum(100)>>), JObj(NoFields)}

\* The ways a value comes wrapped in text.
Direct(v) == <<Json(v)>>
Fenced(v) == <<Prose("Here is the JSON:"), Ws, FenceJson, Ws, Json(v), Ws, Fence>>
AfterThink(v) == <<Prose("<think>"), Prose("not sure"), Ws, Json(v)>>

AdapterTexts ==
    {<<>>, <<Ws>>, ProseOnly}
    \cup {Direct(v) : v \in AdapterObjects \cup NonObjects}
    \cup {Fenced(v) : v \in NonObjects}
    \cup {AfterThink(v) : v \in NonObjects}

AdapterResponses ==
    {Raises, ReturnsNone} \cup {ReturnsText(t) : t \in AdapterTexts}

InitAdapter ==
    \E mode \in {"full", "hybrid"},
       index \in {<<OldFile>>, <<NewFile>>, <<BackupFile>>} :
        InitClassifier(mode, None, index)

NextAdapter ==
    \/ ClassifyRuleBased
    \/ ClassifyBeginHybrid
    \/ ClassifyBeginFull
    \/ HybridAttempt(AdapterResponses)
    \/ FullAttempt(AdapterResponses)
    \/ ClassifyFinish

SpecAdapter == InitAdapter /\ [][NextAdapter]_vars

(***************************************************************************)
(* The rule engine on its own: rule-based runs over an index of one file,  *)
(* the path built from a directory, a name, a name ending and an           *)
(* extension, the age and deprecation_days around each other.              *)
(***************************************************************************)
DirOptions == {<<"/">>, <<"/archive/">>, <<"/Archive/">>, <<"/old/">>}
NameEndOptions == {<<".">>, <<"_old.">>, <<"_OLD.">>, <<"-backup.">>}
ExtensionOptions ==
    {<<"py">>, <<"py", ".bak">>, <<"py", ".orig">>, <<"py", ".BAK">>,
     <<"py", ".bak", ".txt">>}

\* "src" directory "util" name-ending extension
RulePaths ==
    {<<"src">> \o d \o <<"util">> \o n \o e :
        d \in DirOptions, n \in NameEndOptions, e \in ExtensionOptions}

RuleAges == {0, 1, 2, 3, 4, 5, 6, 8, 9, 10, 89, 90, 91, 134, 135, 136,
             269, 270, 271}
RuleThresholds == {2, 3, 90}

RuleFiles ==
    {[path |-> p, kind |-> k, age |-> a] :
        p \in RulePaths, k \in {"py", "other"}, a \in RuleAges}

InitRules ==
    \E entry \in RuleFiles, T \in RuleThresholds :
        InitWithThreshold("full", None, <<entry>>, T)

NextRules == ClassifyRuleBased

SpecRules == InitRules /\ [][NextRules]_vars

(***************************************************************************)
(* The clear-case filter: hybrid and rule-based runs over an index of one  *)
(* file, the path built from a directory, a marker or none in front of the *)
(* name, and an ending; the age around 30 and 365 days.                    *)
(***************************************************************************)
FilterDirs == {<<"scripts/">>, <<"src/">>}
FilterMarkers == {<<>>, <<"~">>, <<".log">>, <<".LOG">>}
FilterEndings ==
    {<<".py">>, <<".md">>, <<".bak">>, <<".tmp">>, <<".swp">>, <<".orig">>,
     <<".py", "~">>}
FilterPaths ==
    {d \o m \o <<"main">> \o e :
        d \in FilterDirs, m \in FilterMarkers, e \in FilterEndings}
FilterAges == {0, 29, 30, 31, 365, 366}
FilterFiles ==
    {[path |-> p, kind |-> k, age |-> a] :
        p \in FilterPaths, k \in {"py", "md", "json", "other"},
        a \in FilterAges}

InitFilter ==
    \E entry \in FilterFiles : InitClassifier("hybrid", None, <<entry>>)

NextFilter ==
    \/ ClassifyRuleBased
    \/ ClassifyBeginHybrid
    \/ HybridAttempt(KeptResponses)
    \/ ClassifyFinish
    \/ KeepResult

SpecFilter == InitFilter /\ [][NextFilter]_vars

(***************************************************************************)
(* The JSON extractor on its own: full-mode runs over one file whose       *)
(* generator answers with every text of up to MaxTextLen tokens and with   *)
(* an unclosed reasoning preamble followed by one object.                  *)
(***************************************************************************)
\* The longest free text (number of tokens).
MaxTextLen == 3

KeepAnswer == Answer(JStr("keep"), JNum(80), SomeReasons, JNull)
ArchiveAnswer == JObj([recommendation |-> JStr("archive"), confidence |-> JNum(75)])

TextTokens ==
    {Ws, Prose("not sure"), LBrace, RBrace, Fence, FenceJson,
     Json(KeepAnswer), Json(JList(<<JNum(100)>>)), Json(JNum(500)),
     Json(JStr("keep")), Json(JNull)}

IsNumeral(tok) == tok.k = "json" /\ tok.v.t = "num"

\* Two numerals side by side are one numeral: such texts are left out.
WellFormedText(t) ==
    \A i \in 1..(Len(t) - 1) : ~(IsNumeral(t[i]) /\ IsNumeral(t[i + 1]))

FreeTexts ==
    {t \in UNION {[1..n -> TextTokens] : n \in 0..MaxTextLen} :
        WellFormedText(t)}

\* What a reasoning preamble may hold, and the preambles of one or two words.
PreambleWords == {Prose("not sure"), LBrace, RBrace, Fence}
Preambles == UNION {[1..n -> PreambleWords] : n \in 1..2}

\* An object on its own or inside a code fence.
ObjectBodies(v) ==
    {<<Json(v)>>,
     <<FenceJson, Ws, Json(v), Ws, Fence>>,
     <<Fence, Ws, Json(v), Ws, Fence>>}

\* "<think>", a preamble, a line break and the object; no "</think>".
UnclosedThink(pre, body) == <<Prose("<think>")>> \o pre \o <<Ws>> \o body

ThinkTexts ==
    {UnclosedThink(pre, body) :
        pre \in Preambles,
        body \in ObjectBodies(KeepAnswer) \cup ObjectBodies(ArchiveAnswer)}

ExtractorTexts == FreeTexts \cup ThinkTexts
ExtractorResponses == {ReturnsText(t) : t \in ExtractorTexts}

InitExtractor == InitClassifier("full", None, <<OldFile>>)

NextExtractor ==
    \/ ClassifyBeginFull
    \/ FullAttempt(ExtractorResponses)
    \/ ClassifyFinish

SpecExtractor == InitExtractor /\ [][NextExtractor]_vars

(***************************************************************************)
(* LocalLLMClient: the providers of the configuration file, the providers  *)
(* whose health check answers 200, the construction of a client and the    *)
(* calls of is_available() and generate() on it.  A provider is known by   *)
(* its place in the configuration; active is that place, 0 for None.       *)
(***************************************************************************)
\* The longest list of providers.
MaxProviders == 3

Priorities == 1..MaxProviders
ProviderConfigs == [priority : Priorities, enabled : BOOLEAN]
ProviderLists == UNION {[1..n -> ProviderConfigs] : n \in 0..MaxProviders}

\* Every provider of the list, enabled or not.
AllProviders(providers) == DOMAIN providers

\* "[p for p in self.providers if p.enabled]"
EnabledProviders(providers) == {i \in DOMAIN providers : providers[i].enabled}

\* The order of sorted(..., key=lambda p: p.priority): by priority, and by
\* place in the list among equal priorities (the sort is stable).
SortsBefore(providers, i, j) ==
    \/ providers[i].priority < providers[j].priority
    \/ providers[i].priority = providers[j].priority /\ i < j

\* The loop of lines 182-189: the first of the sorted candidates whose
\* health check passes, 0 when none does.
FirstHealthy(providers, passing) ==
    IF passing = {} THEN 0
    ELSE CHOOSE i \in passing :
             \A j \in passing \ {i} : SortsBefore(providers, i, j)

_select_active_provider(providers, healthy) ==
    FirstHealthy(providers, EnabledProviders(providers) \cap healthy)

\* What the classifier's variables are.
classifier ==
    <<files, llm_mode, llm_max_files, deprecation_days, _llm_stats,
      _llm_parse_stats, pc, use_llm, llm_client, llm_calls, by_path,
      uncertain_entries, pos, result, exc, runs, generate_calls, probe_calls,
      last_response, output, kept>>

NewClient(providers, healthy) ==
    [pc |-> "new", providers |-> providers, healthy |-> healthy,
     active |-> 0, call |-> "none", returned |-> NoCall]

\* LocalLLMClient(config_path): __init__ (lines 57-72).
ClientConstruct ==
    /\ client.pc = "new"
    /\ client' = [client EXCEPT
           !.pc = "ready",
           !.active = _select_active_provider(client.providers,
                                              client.healthy)]
    /\ UNCHANGED classifier

\* is_available() (lines 75-77)
ClientIsAvailable ==
    /\ client.pc = "ready"
    /\ client' = [client EXCEPT
           !.call = "is_available",
           !.returned = [kind |-> "bool", b |-> client.active # 0]]
    /\ UNCHANGED classifier

\* What _generate_ollama and _generate_openai return: the text of the
\* answer, or None on a status other than 200 and on any exception.
ProviderAnswers == {ReturnsNone, ReturnsText(DirectLowArchive), ReturnsText(EmptyText)}

\* generate() (lines 79-107)
ClientGenerate ==
    /\ client.pc = "ready"
    /\ \E answer \in (IF client.active = 0 THEN {ReturnsNone}
                      ELSE ProviderAnswers) :
           client' = [client EXCEPT !.call = "generate", !.returned = answer]
    /\ UNCHANGED classifier

InitClient ==
    \E providers \in ProviderLists, healthy \in SUBSET (1..MaxProviders) :
        InitWithClient("full", None, <<>>, DefaultDeprecationDays,
                       NewClient(providers, healthy))

NextClient ==
    \/ ClientConstruct
    \/ ClientIsAvailable
    \/ ClientGenerate

SpecClient == InitClient /\ [][NextClient]_vars

(***************************************************************************)
(* Properties.                                                             *)
(***************************************************************************)
\* A recommendation that archives or deletes on a confidence under 0.6.
RiskyOnLowConfidence(rec) ==
    rec.recommendation \in {"archive", "delete"} /\ rec.confidence < 60

\* Decisions that validate to archive or delete.
RiskyLabels == {"archive", "delete", "ARCHIVE", "Delete"}

\* Confidence values of an answer that validate to less than 0.6, each with
\* its clamped value in hundredths.
LowConfidences ==
    {<<JNum(0 - 50), 0>>, <<JNum(0), 0>>, <<JNum(40), 40>>, <<JNum(59), 59>>,
     <<JStr("0.4"), 40>>, <<JBool(FALSE), 0>>}

\* The file of a run over an index of one file holds this decision and
\* confidence in by_path.
HoldsDecision(decision, confidence) ==
    \E i \in DOMAIN by_path :
        /\ by_path[i].key = files[1].path
        /\ by_path[i].value.recommendation = decision
        /\ by_path[i].value.confidence = confidence

\* The text is one serialized JSON object that names decision d and
\* confidence c.
NamesDecision(text, d, c) ==
    IF Len(text) = 1
    THEN IF text[1].k = "json"
         THEN IF text[1].v.t = "obj"
              THEN IF {"recommendation", "confidence"}
                          \subseteq DOMAIN text[1].v.fields
                   THEN /\ text[1].v.fields["recommendation"] = JStr(d)
                        /\ text[1].v.fields["confidence"] = c
                   ELSE FALSE
              ELSE FALSE
         ELSE FALSE
    ELSE FALSE

\* The answer of the last call names archive or delete, with a confidence
\* that validates to lc[2], under 0.6.
AnsweredRiskyLow(lc) ==
    IF pc \in {"phase2", "full"} /\ last_response.kind = "text"
    THEN \E d \in RiskyLabels : NamesDecision(last_response.text, d, lc[1])
    ELSE FALSE

\* C1: Safety gate.  Whatever the generator answers, no recommendation the
\* run holds or returns archives or deletes on a confidence under 0.6; and
\* when the answer names archive or delete with a confidence that validates
\* to less than 0.6, the file's recommendation is review with that same
\* clamped confidence.
C1_SafetyGate ==
    /\ \A i \in DOMAIN by_path : ~RiskyOnLowConfidence(by_path[i].value)
    /\ IF result.kind = "LifecycleResult"
       THEN \A i \in DOMAIN result.recommendations :
                ~RiskyOnLowConfidence(result.recommendations[i])
       ELSE TRUE
    /\ \A lc \in LowConfidences :
           AnsweredRiskyLow(lc) => HoldsDecision("review", lc[2])

\* C1 witness: archive with confidence 0.4 was answered for the old file and
\* review with confidence 0.4 is what the run holds for it.
C1_Witness ==
    /\ pc = "full"
    /\ last_response =
           ReturnsText(Direct(MakeObj(JStr("archive"), JNum(40), SomeReasons,
                                      JStr("Move it"))))
    /\ by_path = <<[key |-> OldFile.path,
                    value |-> FileLifecycleRecommendation(OldFile.path,
                                  "review", 40, SomeReasons.items,
                                  <<"Move it">>)]>>

\* C2: Every completed run, rule-based, full or hybrid, returns as many
\* recommendations as the index has files, and the i-th recommendation is
\* about the i-th file.
C2_OutputAlignsWithInput ==
    (pc = "done" /\ result.kind = "LifecycleResult") =>
        /\ Len(result.recommendations) = Len(files)
        /\ \A i \in DOMAIN files :
               /\ i \in DOMAIN result.recommendations
               /\ result.recommendations[i].path = files[i].path

\* C2 witness: a completed hybrid run that decided the second file of the
\* index (a clear case) before the first one.
C2_Witness ==
    /\ pc = "done"
    /\ llm_mode = "hybrid"
    /\ result.kind = "LifecycleResult"
    /\ result.scan_metadata.classification_method = "llm-enhanced"
    /\ Len(files) = 2
    /\ Len(by_path) = 2
    /\ by_path[1].key = files[2].path
    /\ result.recommendations[1].path = files[1].path
    /\ result.recommendations[2].path = files[2].path

\* The generator calls that fail: the call raises, returns nothing or the
\* empty string, or returns text that holds no JSON.
FailedCalls ==
    {Raises, ReturnsNone, ReturnsText(EmptyText), ReturnsText(ProseOnly)}

\* The entry the running loop is at.
CurrentEntry == IF pc = "phase2" THEN uncertain_entries[pos] ELSE files[pos]

\* A step that calls the generator and gets a failed call: the file gets the
\* rule engine's recommendation, one fallback and one attempt are counted,
\* the generator was called once, and the loop moves to the next file.
FallbackStep ==
    IF /\ pc \in {"phase2", "full"}
       /\ generate_calls' # generate_calls
       /\ last_response' \in FailedCalls
    THEN /\ pc' = pc
         /\ exc' = "None"
         /\ pos' = pos + 1
         /\ generate_calls' = generate_calls + 1
         /\ _llm_stats'.fallbacks = _llm_stats.fallbacks + 1
         /\ _llm_stats'.attempts = _llm_stats.attempts + 1
         /\ _llm_stats'.successes = _llm_stats.successes
         /\ \E i \in DOMAIN by_path' :
                /\ by_path'[i].key = CurrentEntry.path
                /\ by_path'[i].value =
                       RuleRecommendation(CurrentEntry, deprecation_days)
    ELSE TRUE

\* After a failed call the run goes on: its next step handles the next file
\* or completes the run.
RunGoesOn ==
    (pc \in {"phase2", "full"} /\ last_response \in FailedCalls)
    => pc' \in {pc, "done"}

\* C3: Per-file fallback.  In a run that uses the generator, a file whose
\* call fails gets the rule engine's recommendation, with one fallback
\* counted and no second call, and the run goes on to the next file and to
\* its completion.
C3_PerFileFallback == [][FallbackStep /\ RunGoesOn]_vars

\* C4: No exception leaves the adapter: whatever text the generator
\* returns, the call of classify() does not end in an exception.
C4_AdapterNeverRaises ==
    last_response.kind = "text" => (pc # "raised" /\ exc = "None")

\* The result of a run that used the generator.
LLMEnhanced ==
    /\ pc = "done"
    /\ result.kind = "LifecycleResult"
    /\ result.scan_metadata.classification_method = "llm-enhanced"

\* C5: At the end of a full-mode run over N files whose calls succeed,
\* raise, return nothing or return text without JSON, attempts is N and
\* successes + fallbacks is N.
C5_FullModeCounters ==
    (LLMEnhanced /\ llm_mode = "full") =>
        /\ _llm_stats.attempts = Len(files)
        /\ _llm_stats.successes + _llm_stats.fallbacks = Len(files)

\* The budget of a hybrid run is spent: it has called the generator as
\* often as llm_max_files allows.
BudgetSpent ==
    IF llm_mode = "hybrid" /\ llm_max_files # None
    THEN generate_calls >= llm_max_files[1]
    ELSE FALSE

\* A hybrid run with a budget never calls the generator more often than the
\* budget allows.
WithinBudget ==
    IF llm_mode = "hybrid" /\ llm_max_files # None
    THEN generate_calls <= llm_max_files[1]
    ELSE TRUE

\* With the budget spent, the step for the next uncertain file calls no
\* generator and gives the file the rule engine's recommendation.
OverBudgetStep ==
    IF pc = "phase2" /\ pos <= Len(uncertain_entries) /\ BudgetSpent
    THEN /\ generate_calls' = generate_calls
         /\ last_response' = NoCall
         /\ pos' = pos + 1
         /\ \E i \in DOMAIN by_path' :
                /\ by_path'[i].key = uncertain_entries[pos].path
                /\ by_path'[i].value =
                       RuleRecommendation(uncertain_entries[pos],
                                          deprecation_days)
    ELSE TRUE

\* C6: Call budget of the hybrid mode.  With a budget B the generator is
\* called at most B times in a run, and once B calls are made every later
\* uncertain file is classified by the rule engine without a call.
C6_CallBudget == [][WithinBudget' /\ OverBudgetStep]_vars

\* C6 witness: a hybrid run with budget 1 and two uncertain files has called
\* the generator for the first and classified the second without a call.
C6_Witness ==
    /\ pc = "phase2"
    /\ llm_mode = "hybrid"
    /\ llm_max_files = <<1>>
    /\ Len(uncertain_entries) = 2
    /\ pos = 3
    /\ generate_calls = 1
    /\ last_response = NoCall
    /\ Len(by_path) = 2
    /\ by_path[2].value =
           RuleRecommendation(uncertain_entries[2], deprecation_days)

\* C7: The statistics are per run.  A run that has made no attempt yet has
\* all six counters at zero, and the counters the metadata of a completed
\* run reports (the classifier's own) count the events of that run alone.
C7_PerRunStatistics ==
    /\ (pc \in {"phase2", "full"} /\ llm_calls = 0 /\ generate_calls = 0) =>
           /\ _llm_stats = [attempts |-> 0, successes |-> 0, fallbacks |-> 0]
           /\ _llm_parse_stats =
                  [attempts |-> 0, parse_success |-> 0, parse_failed |-> 0]
    /\ LLMEnhanced =>
           /\ _llm_stats.attempts = generate_calls
           /\ _llm_stats.successes + _llm_stats.fallbacks = generate_calls
           /\ _llm_parse_stats.attempts <= generate_calls

\* The decision the clear-case filter forces for the files of the
\* catalogue: the recent script is kept, the .bak file archived, the old
\* document reviewed; the other files are uncertain.
ForcedFor(entry) ==
    CASE entry = CoreFile   -> "keep"
      [] entry = BackupFile -> "archive"
      [] entry = OldDoc     -> "review"
      [] OTHER              -> "None"

\* What a clear file is to get: its forced decision, 0.9, one reason.
ForcedRecommendation(entry) ==
    [path |-> entry.path, recommendation |-> ForcedFor(entry),
     confidence |-> 90,
     reasons |-> <<JStr("Rule-based clear case: " \o ForcedFor(entry))>>,
     suggested_action |-> <<>>]

\* A hybrid run holds, and returns, the forced recommendation of every
\* clear file of the index.
ClearFilesForced ==
    /\ (llm_mode = "hybrid" /\ pc = "phase2") =>
           \A i \in DOMAIN files :
               ForcedFor(files[i]) # "None" =>
                   \E k \in DOMAIN by_path :
                       by_path[k] = [key |-> files[i].path,
                                     value |-> ForcedRecommendation(files[i])]
    /\ (llm_mode = "hybrid" /\ LLMEnhanced) =>
           \A i \in DOMAIN files :
               ForcedFor(files[i]) # "None" =>
                   /\ i \in DOMAIN result.recommendations
                   /\ result.recommendations[i] =
                          ForcedRecommendation(files[i])

\* The first phase of a hybrid run counts nothing and calls no generator;
\* a later step that calls the generator or counts is about a file that is
\* no clear case.
ClearCaseStep ==
    /\ (llm_mode = "hybrid" /\ pc # "phase2" /\ pc' = "phase2") =>
           /\ _llm_stats' = _llm_stats
           /\ _llm_parse_stats' = _llm_parse_stats
           /\ generate_calls' = 0
    /\ IF /\ pc = "phase2"
          /\ generate_calls' # generate_calls \/ _llm_stats' # _llm_stats
       THEN IF pos <= Len(uncertain_entries)
            THEN ForcedFor(uncertain_entries[pos]) = "None"
            ELSE FALSE
       ELSE TRUE

\* C8: In the hybrid mode every clear file gets its forced decision with
\* confidence 0.9 and the one clear-case reason; the generator is not called
\* for it and it counts no attempt, success or fallback.
C8_ClearCases == [][ClearFilesForced' /\ ClearCaseStep]_vars

\* C8 witness: a completed hybrid run over an uncertain file and a clear one
\* made one call and one attempt, and returns the forced recommendation.
C8_Witness ==
    /\ LLMEnhanced
    /\ llm_mode = "hybrid"
    /\ runs = 1
    /\ files = <<OldFile, BackupFile>>
    /\ generate_calls = 1
    /\ _llm_stats.attempts = 1
    /\ result.recommendations[2] = ForcedRecommendation(BackupFile)

\* A call of classify() that found its index, with generation disabled, no
\* generator, or a generator that is not available.
RuleOnlyCall ==
    /\ runs' = runs + 1
    /\ exc' # "FileNotFoundError"
    /\ ~use_llm' \/ llm_client' \in {"None", "unavailable"}

\* The result is the rule engine's on every file, tagged rule-based.
RuleBasedResult(r) ==
    IF r.kind = "LifecycleResult"
    THEN /\ r.scan_metadata = [classification_method |-> "rule-based-v1"]
         /\ Len(r.recommendations) = Len(files)
         /\ \A i \in DOMAIN files :
                r.recommendations[i] =
                    RuleRecommendation(files[i], deprecation_days)
    ELSE FALSE

\* C9: With generation disabled, no generator, or a generator whose probe
\* answers false, classify() returns the rule engine's recommendation for
\* every file: generate() is not called, no counter changes, the probe is
\* asked at most once, and the method tag is the rule-based one.
C9_RuleOnlyRun ==
    [][RuleOnlyCall =>
           /\ pc' = "done"
           /\ generate_calls' = 0
           /\ last_response' = NoCall
           /\ _llm_stats' = _llm_stats
           /\ _llm_parse_stats' = _llm_parse_stats
           /\ probe_calls' <= 1
           /\ RuleBasedResult(result')]_vars

\* C9 witness: after a run that counted an attempt, a run with a generator
\* that is not available completed rule-based, the probe asked once.
C9_Witness ==
    /\ pc = "done"
    /\ runs = 2
    /\ use_llm
    /\ llm_client = "unavailable"
    /\ probe_calls = 1
    /\ generate_calls = 0
    /\ _llm_stats.attempts >= 1
    /\ Len(files) >= 1
    /\ RuleBasedResult(result)

\* C10: Every recommendation a completed run returns, from the rule engine,
\* a clear case or the generator's answer, has one of the four decisions and
\* a confidence from 0 to 1.
C10_OutputInRange ==
    (pc = "done" /\ result.kind = "LifecycleResult") =>
        \A i \in DOMAIN result.recommendations :
            /\ result.recommendations[i].recommendation
                   \in {"keep", "archive", "delete", "review"}
            /\ result.recommendations[i].confidence \in 0..100

\* C10 witness: a completed run whose generator answered an unknown decision
\* with confidence 1.5 returns review with confidence 1.
C10_Witness ==
    /\ LLMEnhanced
    /\ last_response =
           ReturnsText(Direct(MakeObj(JStr("purge"), JNum(150), SomeReasons,
                                      Missing)))
    /\ Len(result.recommendations) = 1
    /\ result.recommendations[1].recommendation = "review"
    /\ result.recommendations[1].confidence = 100

\* The flags of a path of RulePaths, read off its chunks: a directory of
\* the archive kind (in any letter case), a name ending of the legacy kind
\* (in any letter case), a backup suffix (as written) at the very end.
InArchiveDir(path) ==
    \E i \in DOMAIN path : path[i] \in {"/archive/", "/Archive/", "/old/"}
HasLegacyName(path) ==
    \E i \in DOMAIN path : path[i] \in {"_old.", "_OLD.", "-backup."}
HasBackupSuffix(path) == path[Len(path)] \in {".bak", ".orig"}

\* The reference table, first match wins: <<decision, confidence>>.
ReferenceRow(path, age, T) ==
    IF InArchiveDir(path) THEN <<"archive", 95>>
    ELSE IF HasLegacyName(path) THEN <<"archive", 90>>
    ELSE IF HasBackupSuffix(path) THEN <<"delete", 85>>
    ELSE IF age >= 3 * T THEN <<"archive", 80>>
    ELSE IF 2 * age >= 3 * T THEN <<"review", 65>>
    ELSE IF age >= T THEN <<"review", 60>>
    ELSE <<"keep", 90>>

\* The recommendation of a completed rule-based run over one file.
RuleRunDone ==
    /\ pc = "done"
    /\ result.kind = "LifecycleResult"
    /\ Len(files) = 1
    /\ Len(result.recommendations) = 1

\* C11: The rule engine agrees with the first-match-wins reference table
\* on every path, age and threshold: archive directory archive/0.95 with no
\* suggested action, legacy name archive/0.90, backup suffix delete/0.85,
\* age >= 3T archive/0.80, age >= 1.5T review/0.65, age >= T review/0.60,
\* otherwise keep/0.90, the age comparisons inclusive.
C11_RuleTable ==
    RuleRunDone =>
        /\ <<result.recommendations[1].recommendation,
             result.recommendations[1].confidence>>
               = ReferenceRow(files[1].path, files[1].age, deprecation_days)
        /\ InArchiveDir(files[1].path) =>
               result.recommendations[1].suggested_action = <<>>
        /\ result.recommendations[1].path = files[1].path

\* C11 witness: a file of no pattern, 270 days old with a threshold of 90,
\* came out archive/0.80.
C11_Witness ==
    /\ RuleRunDone
    /\ deprecation_days = 90
    /\ files[1].age = 270
    /\ files[1].path = <<"src", "/", "util", ".", "py">>
    /\ result.recommendations[1].recommendation = "archive"
    /\ result.recommendations[1].confidence = 80

\* The file of a completed rule-based run ends in ".bak" and came out
\* delete with confidence 0.85 or more and an action that says Delete.
BakFile == files[1].path[Len(files[1].path)] = ".bak"
DeleteAdvised ==
    /\ result.recommendations[1].recommendation = "delete"
    /\ result.recommendations[1].confidence >= 85
    /\ result.recommendations[1].suggested_action # <<>>
    /\ result.recommendations[1].suggested_action[1] = "Delete"

\* C12 as stated: every path ending in ".bak", whatever else it contains
\* and whatever the age, gets delete with confidence >= 0.85 and an action
\* that mentions deletion.
C12_BakAlwaysDelete == (RuleRunDone /\ BakFile) => DeleteAdvised

\* C12: A path ending in ".bak" that is in no archive directory and has no
\* legacy name gets, whatever the age, delete with confidence >= 0.85 and
\* an action that mentions deletion.
C12_BakDeleteAfterEarlierRules ==
    (/\ RuleRunDone
     /\ BakFile
     /\ ~InArchiveDir(files[1].path)
     /\ ~HasLegacyName(files[1].path)) => DeleteAdvised

\* C12 witness: src/util.py.bak, 271 days old with a threshold of 90, came
\* out delete/0.85.
C12_Witness ==
    /\ RuleRunDone
    /\ files[1].path = <<"src", "/", "util", ".", "py", ".bak">>
    /\ files[1].age = 271
    /\ deprecation_days = 90
    /\ DeleteAdvised
    /\ result.recommendations[1].confidence = 85

\* A call of classify() that ends in FileNotFoundError has called neither
\* generate() nor is_available(), has left both statistics dictionaries as
\* they were, and returns no result.
MissingIndexStep ==
    (runs' = runs + 1 /\ pc' = "raised" /\ exc' = "FileNotFoundError")
    => /\ generate_calls' = 0
       /\ probe_calls' = 0
       /\ _llm_stats' = _llm_stats
       /\ _llm_parse_stats' = _llm_parse_stats
       /\ result' = NoResult
       /\ by_path' = <<>>

MissingIndexIsClean == [][MissingIndexStep]_vars

\* No call of classify() ends in another exception.
OnlyFileNotFound == pc = "raised" => exc = "FileNotFoundError"

\* C13: A missing index is the only fatal error and it strikes before any
\* per-file work: the call raises FileNotFoundError without a generator
\* call or availability probe, without a change of a statistics counter
\* and without a recommendation.
C13_MissingIndexOnlyFatal == [][MissingIndexStep]_vars /\ []OnlyFileNotFound

\* The extractor has been run on the text of the last generate() call.
Extracted ==
    /\ last_response # NoCall
    /\ last_response.kind = "text"
    /\ Strip(last_response.text) # <<>>

\* A text without a brace: no object can be in it.
NoBraces(text) == \A i \in DOMAIN text : ~HasOpenBrace(text[i]) /\ ~HasCloseBrace(text[i])

\* C14: For every text the extractor returns a mapping or None, and text
\* with no embedded object (pure prose, a truncated preamble without
\* braces) yields None.
C14_MappingOrNone ==
    Extracted =>
        /\ _parse_llm_json(last_response.text).t \in {"obj", "null"}
        /\ NoBraces(last_response.text)
           => _parse_llm_json(last_response.text) = JNull

\* The one serialized object of a text.
TheObject(text) == text[CHOOSE i \in DOMAIN text : text[i].k = "json"].v

\* C15: For a text made of a reasoning preamble that is never closed and
\* one valid object after it (in a code fence or not), the extractor
\* returns that object, whatever the preamble holds, braces included.
C15_UnclosedPreamble ==
    (Extracted /\ last_response.text \in ThinkTexts)
    => _parse_llm_json(last_response.text) = TheObject(last_response.text)

\* The same for the preambles without a brace or a fence.
PlainPreamble(text) ==
    \A i \in DOMAIN text : text[i].k \in {"lbrace", "rbrace", "fence"} => i > 3

PlainPreambleParsed ==
    (Extracted /\ last_response.text \in ThinkTexts /\ PlainPreamble(last_response.text))
    => _parse_llm_json(last_response.text) = TheObject(last_response.text)

\* The sum of a count over a set of keys.
RECURSIVE SumOver(_, _)
SumOver(f, keys) ==
    IF keys = {} THEN 0
    ELSE LET k == CHOOSE x \in keys : TRUE
         IN  f[k] + SumOver(f, keys \ {k})

\* The file at output_path holds the result of the last call.
SavedLast == pc = "done" /\ output # NoOutput /\ output.recommendations = result.recommendations

\* How many of the saved recommendations have a confidence in [lo, hi).
SavedBetween(lo, hi) ==
    Cardinality({i \in DOMAIN output.recommendations :
        /\ output.recommendations[i].confidence >= lo
        /\ output.recommendations[i].confidence < hi})

\* C16: The summary counts every recommendation of the final list once in
\* each breakdown: the by-decision counts and the three confidence buckets
\* (high >= 0.8, medium in [0.6, 0.8), low < 0.6) each sum to total_files,
\* which is the number of input files; clear-case and fallback
\* recommendations are counted like the generated ones.
C16_SummaryCountsAll ==
    SavedLast =>
        /\ output.summary.total_files = Len(files)
        /\ SumOver(output.summary.by_decision,
                   DOMAIN output.summary.by_decision) = Len(files)
        /\ SumOver(output.summary.confidence_distribution,
                   {"high", "medium", "low"}) = Len(files)
        /\ output.summary.confidence_distribution["high"]
               = SavedBetween(HighConfidence, 101)
        /\ output.summary.confidence_distribution["medium"]
               = SavedBetween(MediumConfidence, HighConfidence)
        /\ output.summary.confidence_distribution["low"]
               = SavedBetween(0, MediumConfidence)

\* C16 witness: the first run, hybrid, over a clear case and an uncertain
\* file whose call fell back, is saved: the summary counts both files.
C16_Witness ==
    /\ SavedLast
    /\ runs = 1
    /\ llm_mode = "hybrid"
    /\ Len(files) = 2
    /\ Len(uncertain_entries) = 1
    /\ _llm_stats.fallbacks = 1
    /\ _llm_stats.successes = 0
    /\ output.summary.total_files = 2
    /\ SumOver(output.summary.by_decision,
               DOMAIN output.summary.by_decision) = 2

\* The text of the path holds "archive/" as it is written.
HoldsArchiveSlash(path) == \E i \in DOMAIN path : path[i] = "/archive/"

\* The one recommendation of a rule-based run advises a move, a deletion.
AdvisesMove ==
    /\ result.recommendations[1].suggested_action # <<>>
    /\ result.recommendations[1].suggested_action[1] = "Move to "
AdvisesDelete ==
    /\ result.recommendations[1].suggested_action # <<>>
    /\ result.recommendations[1].suggested_action[1] = "Delete"

\* C17 as stated: in a rule-based run every archive recommendation whose
\* path does not contain "archive/" has a suggested action with "Move to",
\* and every delete recommendation one with "Delete".
C17_ActionsByArchiveText ==
    RuleRunDone =>
        /\ (/\ result.recommendations[1].recommendation = "archive"
            /\ ~HoldsArchiveSlash(files[1].path)) => AdvisesMove
        /\ result.recommendations[1].recommendation = "delete" => AdvisesDelete

\* C17: In a rule-based run every archive recommendation whose path is in
\* none of the archive directories (/archive/, /old/ and the like, in either
\* letter case) has a suggested action with "Move to", and every delete
\* recommendation one with "Delete".
C17_ActionsOutsideArchiveDirs ==
    RuleRunDone =>
        /\ (/\ result.recommendations[1].recommendation = "archive"
            /\ ~InArchiveDir(files[1].path)) => AdvisesMove
        /\ result.recommendations[1].recommendation = "delete" => AdvisesDelete

\* C17 witness: src/util_old.py, a legacy name outside the archive
\* directories, came out archive with the advice to move it.
C17_Witness ==
    /\ RuleRunDone
    /\ files[1].path = <<"src", "/", "util", "_old.", "py">>
    /\ result.recommendations[1].recommendation = "archive"
    /\ AdvisesMove

\* The enabled providers whose health check passes.
Usable == {i \in DOMAIN client.providers :
              client.providers[i].enabled /\ i \in client.healthy}

ClientReady == client.pc = "ready"

\* C18: After construction the active provider is the enabled provider
\* with the lowest priority number among the healthy ones, a disabled one
\* never; with no enabled healthy provider active is None, is_available()
\* is false and generate() returns None without raising.
C18_ProviderSelection ==
    ClientReady =>
        /\ client.active # 0 =>
               /\ client.active \in Usable
               /\ \A j \in Usable :
                      client.providers[client.active].priority
                          <= client.providers[j].priority
        /\ Usable = {} <=> client.active = 0
        /\ client.call = "is_available" =>
               client.returned = [kind |-> "bool", b |-> Usable # {}]
        /\ (client.call = "generate" /\ Usable = {}) =>
               client.returned = ReturnsNone

\* C18 witness: the first provider has priority 1 and is disabled, the
\* second has priority 3, the third priority 2; all are healthy; the third
\* is active and generate() has answered.
C18_Witness ==
    /\ ClientReady
    /\ Len(client.providers) = 3
    /\ client.healthy = {1, 2, 3}
    /\ client.providers[1] = [priority |-> 1, enabled |-> FALSE]
    /\ client.providers[2] = [priority |-> 3, enabled |-> TRUE]
    /\ client.providers[3] = [priority |-> 2, enabled |-> TRUE]
    /\ client.active = 3
    /\ client.call = "generate"
    /\ client.returned.kind = "text"

\* A step in which the adapter is called.
AdapterCalled ==
    pc \in {"phase2", "full"} /\ generate_calls' = generate_calls + 1

\* The adapter returned to classify(), which stored what it got for the
\* current entry: the adapter's recommendation or, after None, the rule
\* engine's.
ReturnedNothing ==
    IF pc' = "raised" THEN FALSE
    ELSE DictLookup(by_path', CurrentEntry.path)
             = RuleRecommendation(CurrentEntry, deprecation_days)
ReturnedRecommendation == IF pc' = "raised" THEN FALSE ELSE ~ReturnedNothing

OneIf(b) == IF b THEN 1 ELSE 0

\* Each call moves the counters by what it returns.
CountersFollowReturns ==
    AdapterCalled =>
        /\ _llm_stats'.successes
               = _llm_stats.successes + OneIf(ReturnedRecommendation)
        /\ _llm_parse_stats'.parse_success
               = _llm_parse_stats.parse_success + OneIf(ReturnedRecommendation)
        /\ _llm_stats'.fallbacks
               = _llm_stats.fallbacks + OneIf(ReturnedNothing)

\* C19: The success counters count returned recommendations: successes and
\* parse successes grow by one exactly in a call that returns a
\* recommendation, fallbacks exactly in a call that returns nothing.
C19_SuccessesCountReturns == [][CountersFollowReturns]_vars

\* The value the extractor yields for the text of the last call.
Parsed == _parse_llm_json(last_response.text)

\* The decision an object asks for: its recommendation in lower case when
\* that is one of the four decisions, review otherwise.
AskedDecision(obj) ==
    IF "recommendation" \notin DOMAIN obj.fields THEN "review"
    ELSE IF obj.fields["recommendation"].t # "str" THEN "review"
    ELSE IF LowerLabel(obj.fields["recommendation"].s) \in LifecycleDecision
    THEN LowerLabel(obj.fields["recommendation"].s)
    ELSE "review"

\* What classify() stored for the one file of the index.
Stored == DictLookup(by_path, files[1].path)

\* The adapter returned a recommendation with the decision asked for, or
\* with review where the safety gate applies.
ReturnedAsAsked(obj) ==
    IF pc = "raised" \/ by_path = <<>> THEN FALSE
    ELSE /\ Stored # RuleRecommendation(files[1], deprecation_days)
         /\ \/ Stored.recommendation = AskedDecision(obj)
            \/ /\ AskedDecision(obj) \in {"archive", "delete"}
               /\ Stored.confidence < SafetyGateConfidence
               /\ Stored.recommendation = "review"

ObjectExtracted == IF Extracted THEN Parsed.t = "obj" ELSE FALSE

\* C20: Whenever the extractor yields an object the adapter returns a
\* recommendation: with the object's decision when that is one of the four,
\* with review in every other case (absent, null, empty, unknown, an object
\* without fields); it never returns nothing for want of a decision.
C20_DecisionValidation == ObjectExtracted => ReturnedAsAsked(Parsed)

\* The same for the objects that hold a field and whose decision is absent,
\* null or a text.
TextualDecision(obj) ==
    /\ DOMAIN obj.fields # {}
    /\ "recommendation" \in DOMAIN obj.fields =>
           obj.fields["recommendation"].t \in {"str", "null"}

TextualDecisionValidated ==
    (IF ObjectExtracted THEN TextualDecision(Parsed) ELSE FALSE)
    => ReturnedAsAsked(Parsed)

\* Every reason of a recommendation is a string.
AllStrings(reasons) == \A k \in DOMAIN reasons : reasons[k].t = "str"

\* C21: Reasons validation.  Every recommendation the adapter returns holds
\* a sequence of strings as its reasons: a scalar is wrapped as a sequence of
\* one string and a sequence with other elements is not passed through.
C21_ReasonsAreStrings ==
    \A i \in DOMAIN by_path : AllStrings(by_path[i].value.reasons)

\* The same for the answers whose reasons are no list.
ReasonsNoList ==
    IF ObjectExtracted
    THEN IF "reasons" \in DOMAIN Parsed.fields
         THEN Parsed.fields["reasons"].t # "list"
         ELSE TRUE
    ELSE FALSE

ScalarReasonsAreStrings ==
    ReasonsNoList => \A i \in DOMAIN by_path : AllStrings(by_path[i].value.reasons)

\* The result of a generation-enabled run: its metadata holds the run's
\* counters.
HoldsRunStatistics(res) ==
    IF res.kind = "LifecycleResult"
    THEN "llm_stats" \in DOMAIN res.scan_metadata
    ELSE FALSE

\* While the caller holds a returned result, the counters read through its
\* metadata (the classifier's own dictionaries) keep their values.
EmbeddedCountersKept ==
    (HoldsRunStatistics(kept) /\ kept' = kept)
    => /\ _llm_stats' = _llm_stats
       /\ _llm_parse_stats' = _llm_parse_stats

\* C22: The statistics are read-only after a run completes: the counters in
\* the metadata of a returned result never change afterwards, whatever is
\* done later, further classify() calls on the classifier included.
C22_StatisticsReadOnly == [][EmbeddedCountersKept]_vars

\* The reference rules of the clear-case filter, read off the chunks of the
\* path: <<is_clear, forced_decision>>.  Markers are compared in lower case;
\* "~" counts at the end of the path.
CorePrefixes == {"scripts/", "tests/", "digital_me/core", "digital_me/api", "digital_me/orchestration", "digital_me_platform"}
HasMarker(path) ==
    \/ \E i \in DOMAIN path : path[i] \in {".log", ".LOG", ".tmp", ".bak", ".swp"}
    \/ path[Len(path)] = "~"
ReferenceFilter(entry) ==
    IF entry.age < 30 /\ entry.path[1] \in CorePrefixes THEN <<TRUE, "keep">>
    ELSE IF HasMarker(entry.path) THEN <<TRUE, "archive">>
    ELSE IF entry.age > 365 /\ entry.kind \in {"md", "txt", "doc", "json"}
    THEN <<TRUE, "review">>
    ELSE <<FALSE, "None">>

\* Phase 1 of a hybrid run over one file is over: the file is in by_path with
\* the forced decision, or among the uncertain entries.
PhaseOneDone == pc = "phase2" /\ pos = 1 /\ Len(files) = 1

PhaseOneOutcome ==
    IF by_path # <<>>
    THEN <<TRUE, by_path[1].value.recommendation>>
    ELSE <<FALSE, "None">>

\* C23: The clear-case filter equals its ordered reference rules on every
\* file: recent core file keep, else temp/log/backup marker (or a trailing
\* "~") archive, else old document review, else not clear; earlier rules
\* win and both age bounds are strict.
C23_FilterReference ==
    PhaseOneDone =>
        /\ PhaseOneOutcome = ReferenceFilter(files[1])
        /\ Len(uncertain_entries) = (IF ReferenceFilter(files[1])[1] THEN 0 ELSE 1)

\* The same for the paths without a "~" before their end.
TildeInside(path) == \E i \in 1..(Len(path) - 1) : path[i] = "~"

FilterReferenceWithoutTildeInside ==
    (PhaseOneDone /\ ~TildeInside(files[1].path))
    => PhaseOneOutcome = ReferenceFilter(files[1])

\* A run has completed with a result.
Completed == pc = "done" /\ result.kind = "LifecycleResult"

\* The recommendation of file i is neither the rule engine's nor a clear
\* case: it is what a generator call returned.
Generated(i) ==
    /\ result.scan_metadata.classification_method = "llm-enhanced"
    /\ result.recommendations[i]
           # RuleRecommendation(files[i], deprecation_days)
    /\ \A d \in LifecycleDecision :
           result.recommendations[i] # ClearCaseRecommendation(files[i], d)

\* C24: The safety gate holds for the whole output of every completed run
\* in every mode: no recommendation archives or deletes on a confidence
\* under 0.6, and every recommendation under 0.6 came from generation and
\* is keep or review.
C24_GateOnWholeOutput ==
    Completed =>
        \A i \in DOMAIN result.recommendations :
            /\ ~RiskyOnLowConfidence(result.recommendations[i])
            /\ result.recommendations[i].confidence < 60 =>
                   /\ result.recommendations[i].recommendation
                          \in {"keep", "review"}
                   /\ Generated(i)

\* C24 witness: a completed hybrid run whose generator asked for a deletion
\* on 0.4: the output holds review on 0.4.
C24_Witness ==
    /\ Completed
    /\ llm_mode = "hybrid"
    /\ last_response = ReturnsText(Direct(MakeObj(JStr("delete"), JNum(40), SomeReasons, Missing)))
    /\ result.recommendations[1].recommendation = "review"
    /\ result.recommendations[1].confidence = 40

\* The relations between the extraction and the generation counters.
CountersConsistent ==
    /\ _llm_parse_stats.attempts
           = _llm_parse_stats.parse_success + _llm_parse_stats.parse_failed
    /\ _llm_parse_stats.parse_success = _llm_stats.successes
    /\ _llm_parse_stats.parse_failed <= _llm_stats.fallbacks
    /\ _llm_parse_stats.attempts <= _llm_stats.attempts

\* The generator call of the step raised or returned nothing or the empty
\* string.
CallGaveNoText ==
    \/ last_response' \in {Raises, ReturnsNone}
    \/ IF last_response'.kind = "text" THEN last_response'.text = <<>> ELSE FALSE

\* Fallbacks without a failed parse grow by one exactly with such a call.
UnparsedFallbacks(stats, parse) == stats.fallbacks - parse.parse_failed

NoTextFallbackStep ==
    UnparsedFallbacks(_llm_stats', _llm_parse_stats')
        = UnparsedFallbacks(_llm_stats, _llm_parse_stats)
          + OneIf(AdapterCalled /\ CallGaveNoText)

\* C25: After every per-file step the extraction counters are consistent
\* with the generation counters: parse attempts = parse successes + parse
\* failures, parse successes = successes, parse failures <= fallbacks,
\* parse attempts <= attempts, and fallbacks - parse failures counts the
\* generator calls that raised or returned empty text.
C25_ParseCounters == []CountersConsistent /\ [][NoTextFallbackStep]_vars

\* C25 witness: one call raised and one answered with prose only, a third
\* was parsed: two fallbacks, one of them a failed parse.
C25_Witness ==
    /\ CountersConsistent
    /\ _llm_stats = [attempts |-> 3, successes |-> 1, fallbacks |-> 2]
    /\ _llm_parse_stats = [attempts |-> 2, parse_success |-> 1, parse_failed |-> 1]

\* U, the files the filter does not mark clear, B, the budget, and
\* min(B, U); no budget is no limit.
UncertainCount == Cardinality({i \in DOMAIN files : ~IsForced(files[i])})
CallsDue ==
    IF llm_max_files = None THEN UncertainCount
    ELSE IF llm_max_files[1] < UncertainCount THEN llm_max_files[1]
    ELSE UncertainCount

\* A hybrid run that used the generator has completed.
HybridCompleted ==
    /\ Completed
    /\ llm_mode = "hybrid"
    /\ result.scan_metadata.classification_method = "llm-enhanced"

\* The calls of the run are min(B, U), by the generator's count and by
\* llm_calls.
CallsAsDue ==
    HybridCompleted => (generate_calls = CallsDue /\ llm_calls = CallsDue)

\* ... and by the attempts counter.
AttemptsAsDue == HybridCompleted => _llm_stats.attempts = CallsDue

\* The k-th call of a hybrid run is for the k-th uncertain file of the
\* input, all clear cases decided before.
CallsInInputOrder ==
    (pc = "phase2" /\ generate_calls' = generate_calls + 1)
    => /\ pos = generate_calls + 1
       /\ uncertain_entries = SelectSeq(files, LAMBDA e : ~IsForced(e))
       /\ \A i \in DOMAIN files :
              IsForced(files[i]) =>
                  \E j \in DOMAIN by_path : by_path[j].key = files[i].path

\* C26: In selective mode with budget B the generator is called for
\* exactly the first min(B, U) uncertain files, in input order and after
\* the clear cases; a failed attempt still uses up budget, so at the end of
\* the run attempts = llm_calls = min(B, U).
C26_BudgetedCalls ==
    /\ [](CallsAsDue /\ AttemptsAsDue)
    /\ [][CallsInInputOrder]_vars

\* The same without the attempts counter, and with it in a first run.
CallsDueInOrder == []CallsAsDue /\ [][CallsInInputOrder]_vars
AttemptsAsDueFirstRun == runs = 1 => AttemptsAsDue

\* A full run with the generator available has completed.
FullCompleted ==
    /\ Completed
    /\ llm_mode = "full"
    /\ result.scan_metadata.classification_method = "llm-enhanced"

\* Its recommendations are those of a run with generation disabled: the
\* rule engine's, and the ones of the rule-based result the caller holds
\* from an earlier run over the same files.
SameAsRuleOnly ==
    /\ result.recommendations
           = [i \in DOMAIN files |->
                 RuleRecommendation(files[i], deprecation_days)]
    /\ RuleBasedResult(kept) => result.recommendations = kept.recommendations

\* The counters of a run of N failed calls.
AllFallbacks ==
    /\ _llm_stats.attempts = Len(files)
    /\ _llm_stats.fallbacks = Len(files)
    /\ _llm_stats.successes = 0

\* C27: Exhaustive mode degrades to rule-only mode: a full run whose
\* generator fails on every call returns the recommendations of a run with
\* generation disabled, with attempts = fallbacks = N and successes = 0.
C27_FullDegradesToRules == FullCompleted => (SameAsRuleOnly /\ AllFallbacks)

\* The same without the counters, and with them in a first run.
FullDegradesRecommendations == FullCompleted => SameAsRuleOnly
AllFallbacksFirstRun == (FullCompleted /\ runs = 1) => AllFallbacks

\* A hybrid run over one file has completed and the generator was never
\* used successfully: it was not called, or its call fell back.
GeneratorUnused ==
    /\ HybridCompleted
    /\ Len(files) = 1
    /\ _llm_stats.successes = 0

FirstDecision == result.recommendations[1].recommendation
RuleDecision ==
    RuleRecommendation(files[1], deprecation_days).recommendation

\* C28 as stated: in such a run the file has the decision of the rule
\* engine, a file ending in ".bak" like any other.
FilterAgreesWithRules == GeneratorUnused => FirstDecision = RuleDecision

\* The recommendation is the forced one: decision, 0.9 and the one reason.
ForcedAs(decision) ==
    /\ FirstDecision = decision
    /\ result.recommendations[1].confidence = 90
    /\ result.recommendations[1].reasons
           = <<JStr("Rule-based clear case: " \o decision)>>

\* C28: In a selective run whose generator is never used successfully, an
\* uncertain file has the recommendation of the rule engine and a clear
\* file the decision the filter forces, keep, archive or review at 0.9,
\* whatever the rule engine returns for it: a file ending in ".bak" has
\* keep or archive, never the rule engine's delete.
C28_ForcedOrRuleDecision ==
    GeneratorUnused =>
        /\ \/ result.recommendations[1]
                  = RuleRecommendation(files[1], deprecation_days)
           \/ \E d \in {"keep", "archive", "review"} : ForcedAs(d)
        /\ ~TildeInside(files[1].path) =>
               IF ReferenceFilter(files[1])[1]
               THEN ForcedAs(ReferenceFilter(files[1])[2])
               ELSE result.recommendations[1]
                        = RuleRecommendation(files[1], deprecation_days)
        /\ BakFile => FirstDecision \in {"keep", "archive"}

\* A ".bak" file archived by the filter in a run whose generator was not
\* used, after the rule-based run over the same file advised delete.
C28_Witness ==
    /\ GeneratorUnused
    /\ BakFile
    /\ FirstDecision = "archive"
    /\ RuleDecision = "delete"
    /\ RuleBasedResult(kept)
    /\ kept.recommendations[1].recommendation = "delete"

\* The call of the run returned a recommendation made from the answer.
GeneratedDelete ==
    /\ generate_calls > 0
    /\ last_response = ReturnsText(FencedDelete)
    /\ _llm_stats.successes > 0

\* The file went to phase 2 and has the recommendation of the rule engine.
FallbackDelete ==
    /\ generate_calls > 0
    /\ last_response # ReturnsText(FencedDelete)
    /\ result.recommendations[1]
           = RuleRecommendation(files[1], deprecation_days)

\* C29: The clear-case filter never forces delete: what it forces is keep,
\* archive or review, and a delete recommendation of a selective run is
\* that of a successful generation call or of the rule engine on an
\* uncertain file.
C29_NoForcedDelete ==
    /\ PhaseOneDone =>
           (by_path # <<>> =>
                by_path[1].value.recommendation
                    \in {"keep", "archive", "review"})
    /\ (HybridCompleted /\ Len(files) = 1 /\ FirstDecision = "delete") =>
           /\ uncertain_entries = files
           /\ GeneratedDelete \/ FallbackDelete

\* A delete by the rule engine for an uncertain file whose call failed.
C29_Witness ==
    /\ HybridCompleted
    /\ Len(files) = 1
    /\ FirstDecision = "delete"
    /\ FallbackDelete
    /\ last_response = Raises

\* A delete from the generator's answer.
DeleteFromAnswer ==
    HybridCompleted /\ Len(files) = 1 /\ FirstDecision = "delete"
    /\ GeneratedDelete

\* In a generation-enabled run the filter and the budget are at work in the
\* hybrid mode, and in no other: the run is in phase 2 or in the full loop.
FilterOnlyInHybrid ==
    /\ pc = "phase2" => llm_mode = "hybrid"
    /\ pc = "full" => llm_mode # "hybrid"

\* The full loop has called the generator for every file it has passed.
CalledForEveryFile ==
    pc = "full" =>
        /\ generate_calls = pos - 1
        /\ llm_calls = pos - 1
        /\ uncertain_entries = <<>>

\* A completed generation-enabled run in a mode other than hybrid has
\* called the generator once per file, whatever the budget.
ExhaustiveCompleted ==
    (Completed /\ llm_mode # "hybrid"
       /\ result.scan_metadata.classification_method = "llm-enhanced")
    => (generate_calls = Len(files) /\ llm_calls = Len(files))

\* In the full loop the step for a file is a call of the generator for it.
ExhaustiveStep ==
    (pc = "full" /\ pos <= Len(files)) =>
        /\ generate_calls' = generate_calls + 1
        /\ last_response' # NoCall

\* C30: Only the mode "hybrid" enables the clear-case filter and the call
\* budget.  With any other mode ("full", "lir") a generation-enabled run is
\* exhaustive: the generator is called for every file in turn, once per
\* file in the completed run, also with a budget under the file count.
C30_OnlyHybridSelective ==
    /\ [](FilterOnlyInHybrid /\ CalledForEveryFile /\ ExhaustiveCompleted)
    /\ [][ExhaustiveStep]_vars

\* A "lir" run over two files with a budget of one call has completed with
\* two calls of the generator.
C30_Witness ==
    /\ Completed
    /\ llm_mode = "lir"
    /\ llm_max_files = <<1>>
    /\ Len(files) = 2
    /\ generate_calls = 2
    /\ result.scan_metadata.classification_method = "llm-enhanced"

====
